---- MODULE Spec2Model ----
(***************************************************************************)
(* A model of two parts of nbodykit:                                       *)
(*                                                                         *)
(*   - the Describe algorithm (plugins/algorithms/ExampleAlgorithm.py):    *)
(*     every rank of the communicator streams its partition of a column,   *)
(*     folds per-block minima and maxima, and combines them with two       *)
(*     all-gathers; rank 0 then saves the result;                          *)
(*   - the BenchmarkingSample object of benchmarks/conftest.py with its    *)
(*     preset/override attributes and the data() and randoms() catalogs.   *)
(*                                                                         *)
(* The two parts share no state.  SpecDescribe and FairDescribe run the    *)
(* first, SpecSample and SpecCatalog the second; Spec interleaves both.    *)
(*                                                                         *)
(* Assumptions on the environment: `file` is the Python 2 builtin that     *)
(* opens a path, the output target can be opened, and assert statements    *)
(* are executed (the interpreter does not run with -O).                    *)
(***************************************************************************)
EXTENDS Integers, Sequences, FiniteSets, TLC

VARIABLES
    size,       \* comm.size: the number of ranks of the process group
    owner,      \* row -> "unread", or the rank whose read stream yielded it
    pc,         \* rank -> where the rank is in run / save
    leftList,   \* rank -> the local `left` while it is the list of block minima
    rightList,  \* rank -> the local `right` while it is the list of block maxima
    left,       \* rank -> the local `left` once it is an array, <<>> before
    right,      \* rank -> the local `right` once it is an array, <<>> before
    gatherL,    \* contributions to comm.allgather(left), by rank
    gatherR,    \* contributions to comm.allgather(right), by rank
    err,        \* rank -> the exception that left run, "" when none
    output,     \* the output target every rank passes to save
    written,    \* output target -> the sequence of write() calls it received
    samples,    \* slot -> the BenchmarkingSample object bound to it (its __dict__)
    assigned,   \* history: slot -> attribute -> the value last assigned to it
    raised,     \* the exception of the last BenchmarkingSample call, if any
    cat         \* the catalog the last data() / randoms() call returned

descVars == <<size, owner, pc, leftList, rightList, left, right, gatherL, gatherR, err,
              output, written>>
sampleVars == <<samples, assigned, raised, cat>>
vars == <<size, owner, pc, leftList, rightList, left, right, gatherL, gatherR, err,
          output, written,
          samples, assigned, raised, cat>>

-----------------------------------------------------------------------------
(* Bounds and input sets of the Describe model.                            *)

\* the largest communicator
MaxRanks == 2

\* the rows of the described column in the data source: 3-vectors, chosen so
\* that no single row attains the bounding box on every axis
DataRows == { <<0, 2, 1>>, <<1, 0, 1>>, <<2, 1, 0>>, <<1, 1, 1>> }

Axes == 1..3

Targets == {"-", "out.txt"}

\* the ranks a process group can have, and those of the current one
RankIds == 0..(MaxRanks - 1)
Ranks == 0..(size - 1)

-----------------------------------------------------------------------------
(* numpy reductions along axis 0.                                          *)

Min(S) == CHOOSE x \in S : \A y \in S : x <= y
Max(S) == CHOOSE x \in S : \A y \in S : x >= y

\* numpy raises ValueError for a reduction without identity over zero rows
ZeroSize(arrs) == Len(arrs) = 0

NpMinFirst(arrs) == arrs[1]
\* numpy.min(arrs, axis=0) for a non-empty sequence of equal-length arrays
NpMin(arrs) == [i \in Axes |-> Min({arrs[k][i] : k \in 1..Len(arrs)})]

\* numpy.max(arrs, axis=0) for a non-empty sequence of equal-length arrays
NpMax(arrs) == [i \in Axes |-> Max({arrs[k][i] : k \in 1..Len(arrs)})]

RECURSIVE RowsOf(_)
\* the rows of a block as the array the data source yields
RowsOf(S) == IF S = {} THEN <<>>
             ELSE LET x == CHOOSE y \in S : TRUE IN <<x>> \o RowsOf(S \ {x})

\* the list comm.allgather returns: one entry per rank, in rank order
Gathered(g) == [k \in 1..size |-> g[k - 1]]

Unread == {row \in DataRows : owner[row] = "unread"}
\* the rows the read stream of rank r has yielded so far
Partition(r) == {row \in DataRows : owner[row] = ToString(r)}
RowsRead == DataRows \ Unread

EmptyGather == [r \in {} |-> <<>>]
NoWrites == [t \in Targets |-> <<>>]

InitDescribe ==
    /\ size \in 1..MaxRanks
    /\ owner = [row \in DataRows |-> "unread"]
    /\ pc = [r \in Ranks |-> "read"]
    /\ leftList = [r \in Ranks |-> <<>>]
    /\ rightList = [r \in Ranks |-> <<>>]
    /\ left = [r \in Ranks |-> <<>>]
    /\ right = [r \in Ranks |-> <<>>]
    /\ gatherL = EmptyGather
    /\ gatherR = EmptyGather
    /\ err = [r \in Ranks |-> ""]
    /\ output \in Targets
    /\ written = NoWrites

\* an exception leaves run: the frame and its locals are gone
Raise(r, e) ==
    /\ pc' = [pc EXCEPT ![r] = "raised"]
    /\ err' = [err EXCEPT ![r] = e]
    /\ leftList' = [leftList EXCEPT ![r] = <<>>]
    /\ rightList' = [rightList EXCEPT ![r] = <<>>]
    /\ UNCHANGED <<left, right>>

\* one iteration of the for loop: the stream yields the block blk
ReadBlock(r, blk) ==
    /\ r \in Ranks
    /\ pc[r] = "read"
    /\ blk \subseteq Unread
    /\ owner' = [row \in DataRows |-> IF row \in blk THEN ToString(r) ELSE owner[row]]
    /\ LET pos == RowsOf(blk) IN
         IF ZeroSize(pos)
         THEN Raise(r, "ValueError")
         ELSE /\ leftList' = [leftList EXCEPT ![r] = Append(@, NpMin(pos))]
              /\ rightList' = [rightList EXCEPT ![r] = Append(@, NpMax(pos))]
              /\ UNCHANGED <<pc, err, left, right>>
    /\ UNCHANGED <<size, gatherL, gatherR, output, written>>
    /\ UNCHANGED sampleVars

\* datasource.read raises while the rank is streaming
StreamError(r) ==
    /\ r \in Ranks
    /\ pc[r] = "read"
    /\ Raise(r, "StreamingError")
    /\ UNCHANGED <<size, owner, gatherL, gatherR, output, written>>
    /\ UNCHANGED sampleVars

\* the stream is exhausted: fold the lists, then enter the first all-gather
EndOfStream(r) ==
    /\ r \in Ranks
    /\ pc[r] = "read"
    /\ IF ZeroSize(leftList[r])
       THEN /\ Raise(r, "ValueError")
            /\ UNCHANGED gatherL
       ELSE /\ left' = [left EXCEPT ![r] = NpMin(leftList[r])]
            /\ right' = [right EXCEPT ![r] = NpMax(rightList[r])]
            /\ leftList' = [leftList EXCEPT ![r] = <<>>]
            /\ rightList' = [rightList EXCEPT ![r] = <<>>]
            /\ gatherL' = (r :> NpMin(leftList[r])) @@ gatherL
            /\ pc' = [pc EXCEPT ![r] = "allgather_left"]
            /\ UNCHANGED err
    /\ UNCHANGED <<size, owner, gatherR, output, written>>
    /\ UNCHANGED sampleVars

\* allgather(left) returns once every rank has contributed; then the rank
\* enters allgather(right)
AllgatherLeft(r) ==
    /\ r \in Ranks
    /\ pc[r] = "allgather_left"
    /\ DOMAIN gatherL = Ranks
    /\ left' = [left EXCEPT ![r] = NpMin(Gathered(gatherL))]
    /\ gatherR' = (r :> right[r]) @@ gatherR
    /\ pc' = [pc EXCEPT ![r] = "allgather_right"]
    /\ UNCHANGED <<size, owner, leftList, rightList, right, gatherL, err, output, written>>
    /\ UNCHANGED sampleVars

\* allgather(right) returns once every rank has contributed; run returns
AllgatherRight(r) ==
    /\ r \in Ranks
    /\ pc[r] = "allgather_right"
    /\ DOMAIN gatherR = Ranks
    /\ right' = [right EXCEPT ![r] = NpMax(Gathered(gatherR))]
    /\ pc' = [pc EXCEPT ![r] = "returned"]
    /\ UNCHANGED <<size, owner, leftList, rightList, left, gatherL, gatherR, err, output,
                   written>>
    /\ UNCHANGED sampleVars

\* the text save writes: the template filled with str(left), str(right)
Line(l, r) == <<"min", l, "max", r>>

SaveEveryRank(r) == TRUE
\* the rank test of save
IsWriter(r) == r = 0

\* save(output, data) with data the pair run returned on this rank
Save(r) ==
    /\ r \in Ranks
    /\ pc[r] = "returned"
    /\ IF IsWriter(r)
       THEN written' = [written EXCEPT ![output] =
                IF output = "-" THEN Append(@, [rank |-> r, text |-> Line(left[r], right[r])])
                ELSE <<[rank |-> r, text |-> Line(left[r], right[r])]>>]
       ELSE UNCHANGED written
    /\ pc' = [pc EXCEPT ![r] = "saved"]
    /\ UNCHANGED <<size, owner, leftList, rightList, left, right, gatherL, gatherR, err,
                   output>>
    /\ UNCHANGED sampleVars

RankStep(r) ==
    \/ \E blk \in SUBSET DataRows : ReadBlock(r, blk)
    \/ StreamError(r)
    \/ EndOfStream(r)
    \/ AllgatherLeft(r)
    \/ AllgatherRight(r)
    \/ Save(r)

NextDescribe == \E r \in RankIds : RankStep(r)

-----------------------------------------------------------------------------
(* IEEE binary64 arithmetic, as Python floats and numpy.float64 compute.   *)
(* A finite non-zero double is s * M * 2^x with M an odd integer of at     *)
(* most Prec bits, kept as its bits, most significant first.  Exponents    *)
(* stay far from the overflow and underflow thresholds for the values of   *)
(* the model, so neither is modelled.                                      *)

\* the significand width of a double
Prec == 53

FZero == [k |-> "zero", s |-> 1, bits |-> <<>>, x |-> 0]
FInf(sgn) == [k |-> "inf", s |-> sgn, bits |-> <<>>, x |-> 0]
FNan == [k |-> "nan", s |-> 1, bits |-> <<>>, x |-> 0]

RECURSIVE BitsOf(_)
BitsOf(n) == IF n = 0 THEN <<>> ELSE Append(BitsOf(n \div 2), n % 2)

RECURSIVE IntOf(_)
IntOf(bits) == IF bits = <<>> THEN 0
               ELSE 2 * IntOf(SubSeq(bits, 1, Len(bits) - 1)) + bits[Len(bits)]

RECURSIVE Canon(_, _, _)
\* the double s * bits * 2^x (bits non-zero) with an odd significand
Canon(sgn, bits, x) ==
    IF bits[Len(bits)] = 1
    THEN [k |-> "num", s |-> sgn, bits |-> bits, x |-> x]
    ELSE Canon(sgn, SubSeq(bits, 1, Len(bits) - 1), x + 1)

RECURSIVE Inc(_)
Inc(bits) == IF bits = <<>> THEN <<1>>
             ELSE IF bits[Len(bits)] = 0
                  THEN Append(SubSeq(bits, 1, Len(bits) - 1), 1)
                  ELSE Append(Inc(SubSeq(bits, 1, Len(bits) - 1)), 0)

\* round s * bits * 2^x (plus a non-zero tail below the last bit when sticky)
\* to Prec significant bits, to nearest, ties to even
Round(sgn, bits, x, sticky) ==
    IF Len(bits) <= Prec
    THEN Canon(sgn, bits, x)
    ELSE LET kept  == SubSeq(bits, 1, Prec)
             guard == bits[Prec + 1]
             tail  == sticky \/ \E j \in (Prec + 2)..Len(bits) : bits[j] = 1
             up    == guard = 1 /\ (tail \/ kept[Prec] = 1)
         IN  Canon(sgn, IF up THEN Inc(kept) ELSE kept, x + (Len(bits) - Prec))

\* the double of a Python int or integer-valued float
FromInt(n) == IF n = 0 THEN FZero
              ELSE Canon(IF n < 0 THEN -1 ELSE 1, BitsOf(IF n < 0 THEN -n ELSE n), 0)

\* a * b, correctly rounded; the operands of the model are integer-valued
\* with short significands, so their products are exact
FMul(a, b) ==
    IF a.k = "nan" \/ b.k = "nan" THEN FNan
    ELSE IF a.k = "inf" \/ b.k = "inf"
         THEN IF a.k = "zero" \/ b.k = "zero" THEN FNan ELSE FInf(a.s * b.s)
    ELSE IF a.k = "zero" \/ b.k = "zero" THEN FZero
    ELSE Round(a.s * b.s, BitsOf(IntOf(a.bits) * IntOf(b.bits)), a.x + b.x, FALSE)

\* n as a sequence of `width` bits, and the bits of a significand extended by
\* zeros below its last bit
Fixed(n, width) == [j \in 1..width |-> (n \div 2^(width - j)) % 2]
BitAt(bits, j) == IF j <= Len(bits) THEN bits[j] ELSE 0
Chunk(bits, from, w) == IntOf([j \in 1..w |-> BitAt(bits, from + j - 1)])

\* bits without its leading zeros
Significant(bits) ==
    IF \A j \in 1..Len(bits) : bits[j] = 0 THEN <<>>
    ELSE SubSeq(bits, Min({j \in 1..Len(bits) : bits[j] = 1}), Len(bits))

RECURSIVE LongDiv(_, _, _, _, _, _, _)
\* long division of the first `total` bits of the zero-extended significand
\* `bits` by the integer d, k bits at a time: the quotient and the remainder
LongDiv(bits, pos, total, rem, q, d, k) ==
    IF pos > total
    THEN [q |-> q, rem |-> rem]
    ELSE LET w   == IF total - pos + 1 < k THEN total - pos + 1 ELSE k
             cur == rem * 2^w + Chunk(bits, pos, w)
         IN  LongDiv(bits, pos + w, total, cur % d, q \o Fixed(cur \div d, w), d, k)

\* a / b for finite non-zero a and b, correctly rounded: the quotient of the
\* significands carried to at least Prec + 1 significant bits, then rounded
FDivFinite(a, b) ==
    LET d     == IntOf(b.bits)
        nd    == Len(b.bits)
        total == IF Len(a.bits) > nd + Prec + 1 THEN Len(a.bits) ELSE nd + Prec + 1
        r     == LongDiv(a.bits, 1, total, 0, <<>>, d, 31 - nd)
    IN  Round(a.s * b.s, Significant(r.q), a.x - b.x - (total - Len(a.bits)), r.rem # 0)

\* the exponent of the leading bit
TopExp(a) == a.x + Len(a.bits) - 1

FDivTruncating(a, b) ==
    IF a.k = "nan" \/ b.k = "nan" THEN FNan
    ELSE IF b.k = "zero" THEN (IF a.k = "zero" THEN FNan ELSE FInf(a.s * b.s))
    ELSE IF a.k = "inf" THEN (IF b.k = "inf" THEN FNan ELSE FInf(a.s * b.s))
    ELSE IF a.k = "zero" \/ b.k = "inf" THEN FZero
    ELSE IF TopExp(a) < TopExp(b) THEN FZero
    ELSE FDivFinite(a, b)
\* a / b as numpy.float64 divides: x/0 is inf (nan for 0/0) with a warning,
\* not an exception
FDiv(a, b) ==
    IF a.k = "nan" \/ b.k = "nan" THEN FNan
    ELSE IF b.k = "zero" THEN (IF a.k = "zero" THEN FNan ELSE FInf(a.s * b.s))
    ELSE IF a.k = "inf" THEN (IF b.k = "inf" THEN FNan ELSE FInf(a.s * b.s))
    ELSE IF a.k = "zero" \/ b.k = "inf" THEN FZero
    ELSE FDivFinite(a, b)

\* a > 0 on doubles
FPositive(a) == a.k \in {"num", "inf"} /\ a.s = 1

-----------------------------------------------------------------------------
(* BenchmarkingSample.                                                     *)

\* the largest number of sample objects alive at once
MaxInst == 2

Slots == 1..MaxInst

\* the class attribute `samples`
SampleNames == <<"test", "boss_like", "desi_like">>

\* the class attributes test, boss_like and desi_like
Presets ==
    [ test      |-> [BoxSize |-> 100,  Nmesh |-> 64,   N |-> 1000],
      boss_like |-> [BoxSize |-> 2500, Nmesh |-> 1024, N |-> 1000000],
      desi_like |-> [BoxSize |-> 5000, Nmesh |-> 1024, N |-> 10000000] ]

\* the Nmesh data() passes to LogNormalCatalog
DataNmesh == 512

\* names a caller may pass to the constructor, and values it may assign
NameArgs == {"test", "boss_like", "desi_like", "bogus"}
BoxSizeArgs == {0, 3}
NArgs == {0, 7}
NmeshArgs == {128}
AlphaArgs == {2, 10}

NoAttrs == [a \in {} |-> 0]
NoObject == [name |-> "", attrs |-> NoAttrs]
NoError == [exc |-> "", msg |-> <<>>, arg |-> ""]
NoCatalog == [kind |-> "none", slot |-> 0, nbar |-> FZero, BoxSize |-> <<0, 0, 0>>,
              Nmesh |-> 0, NZ |-> FZero, alpha |-> 0]

Alive(i) == samples[i].name # ""

InitSample ==
    /\ samples = [i \in Slots |-> NoObject]
    /\ assigned = [i \in Slots |-> NoAttrs]
    /\ raised = NoError
    /\ cat = NoCatalog

AnyName(name) == TRUE
\* name in self.samples
ValidName(name) == \E k \in 1..Len(SampleNames) : SampleNames[k] = name

\* getattr(self, self.name) finds a class attribute that is a preset
HasPreset(s) == s.name \in DOMAIN Presets

\* getattr(obj, attr, default)
GetAttr(s, attr, default) ==
    IF attr \in DOMAIN s.attrs THEN s.attrs[attr] ELSE default

\* the Nmesh property
Nmesh(s) == GetAttr(s, "_Nmesh", Presets[s.name].Nmesh)

\* the BoxSize property: numpy.ones(3) * boxsize
BoxSize(s) == LET boxsize == GetAttr(s, "_BoxSize", Presets[s.name].BoxSize)
              IN  [i \in 1..3 |-> 1 * boxsize]

\* the N property
N(s) == GetAttr(s, "_N", Presets[s.name].N)

SetAttrOnClass(ss, i, attr, val) ==
    [j \in DOMAIN ss |-> [ss[j] EXCEPT !.attrs = (attr :> val) @@ @]]
\* self.<attr> = val on the object in slot i
SetAttr(ss, i, attr, val) == [ss EXCEPT ![i].attrs = (attr :> val) @@ @]

\* BoxSize.prod() as a double
Prod(box) == FMul(FMul(FromInt(box[1]), FromInt(box[2])), FromInt(box[3]))

\* nbar of data(): self.N / self.BoxSize.prod()
DataNbar(s) == FDiv(FromInt(N(s)), Prod(BoxSize(s)))

\* nbar of randoms(): alpha * self.N / self.BoxSize.prod()
RandomsNbar(s, alpha) ==
    FDiv(FMul(FromInt(alpha), FromInt(N(s))), Prod(BoxSize(s)))

\* BenchmarkingSample(name), bound to slot i when it succeeds
Construct(i, name) ==
    /\ IF ValidName(name)
       THEN /\ samples' = [samples EXCEPT ![i] = [name |-> name, attrs |-> NoAttrs]]
            /\ assigned' = [assigned EXCEPT ![i] = NoAttrs]
            /\ raised' = NoError
       ELSE /\ raised' = [exc |-> "AssertionError", msg |-> SampleNames, arg |-> name]
            /\ UNCHANGED <<samples, assigned>>
    /\ cat' = NoCatalog
    /\ UNCHANGED descVars

Setter(i, attr, val) ==
    /\ Alive(i)
    /\ samples' = SetAttr(samples, i, attr, val)
    /\ assigned' = [assigned EXCEPT ![i] = (attr :> val) @@ @]
    /\ raised' = NoError
    /\ cat' = NoCatalog
    /\ UNCHANGED descVars

\* sample.BoxSize = val
SetBoxSize(i, val) == Setter(i, "_BoxSize", val)

\* sample.Nmesh = val
SetNmesh(i, val) == Setter(i, "_Nmesh", val)

\* sample.N = val
SetN(i, val) == Setter(i, "_N", val)

\* sample.data(): the arguments given to LogNormalCatalog, and the NZ column
Data(i) ==
    /\ Alive(i)
    /\ IF HasPreset(samples[i])
       THEN LET nbar == DataNbar(samples[i]) IN
            /\ cat' = [kind |-> "LogNormalCatalog", slot |-> i, nbar |-> nbar,
                       BoxSize |-> BoxSize(samples[i]), Nmesh |-> DataNmesh,
                       NZ |-> nbar, alpha |-> 0]
            /\ raised' = NoError
       ELSE /\ cat' = NoCatalog
            /\ raised' = [exc |-> "AttributeError", msg |-> <<>>, arg |-> samples[i].name]
    /\ UNCHANGED <<samples, assigned>>
    /\ UNCHANGED descVars

\* sample.randoms(alpha): the arguments given to UniformCatalog, and NZ
Randoms(i, alpha) ==
    /\ Alive(i)
    /\ IF HasPreset(samples[i])
       THEN LET nbar == RandomsNbar(samples[i], alpha) IN
            /\ cat' = [kind |-> "UniformCatalog", slot |-> i, nbar |-> nbar,
                       BoxSize |-> BoxSize(samples[i]), Nmesh |-> 0,
                       NZ |-> FDiv(nbar, FromInt(alpha)), alpha |-> alpha]
            /\ raised' = NoError
       ELSE /\ cat' = NoCatalog
            /\ raised' = [exc |-> "AttributeError", msg |-> <<>>, arg |-> samples[i].name]
    /\ UNCHANGED <<samples, assigned>>
    /\ UNCHANGED descVars

\* constructing samples and overriding their attributes
NextSample ==
    \E i \in Slots :
        \/ \E name \in NameArgs : Construct(i, name)
        \/ \E val \in BoxSizeArgs : SetBoxSize(i, val)
        \/ \E val \in NmeshArgs : SetNmesh(i, val)
        \/ \E val \in NArgs : SetN(i, val)

\* one sample, its overrides and the catalogs built from it
NextCatalog ==
    \/ \E name \in NameArgs : Construct(1, name)
    \/ \E val \in BoxSizeArgs : SetBoxSize(1, val)
    \/ \E val \in NmeshArgs : SetNmesh(1, val)
    \/ \E val \in NArgs : SetN(1, val)
    \/ Data(1)
    \/ \E alpha \in AlphaArgs : Randoms(1, alpha)

-----------------------------------------------------------------------------
(* Specifications.                                                         *)

\* a process group that is not running, for the specifications of the sample
IdleDescribe ==
    /\ size = 1
    /\ owner = [row \in DataRows |-> "unread"]
    /\ pc = [r \in Ranks |-> "saved"]
    /\ leftList = [r \in Ranks |-> <<>>]
    /\ rightList = [r \in Ranks |-> <<>>]
    /\ left = [r \in Ranks |-> <<>>]
    /\ right = [r \in Ranks |-> <<>>]
    /\ gatherL = EmptyGather
    /\ gatherR = EmptyGather
    /\ err = [r \in Ranks |-> ""]
    /\ output = "-"
    /\ written = NoWrites

\* a process group about to run Describe, and no sample constructed yet
Init == InitDescribe /\ InitSample

\* no run of Describe in progress, and no sample constructed yet
InitIdle == IdleDescribe /\ InitSample

Next == NextDescribe \/ NextSample \/ NextCatalog

Spec == Init /\ [][Next]_vars

\* one run of Describe over a process group, followed by save
SpecDescribe == Init /\ [][NextDescribe]_vars

\* every rank is its own process and keeps running while it has a step to take
FairDescribe == SpecDescribe /\ \A r \in RankIds : WF_vars(RankStep(r))

\* sample objects, constructed and overridden in any order
SpecSample == InitIdle /\ [][NextSample]_vars

\* one sample object and the catalogs it builds
SpecCatalog == InitIdle /\ [][NextCatalog]_vars

-----------------------------------------------------------------------------
(* Properties of Describe.                                                 *)

Returned(r) == pc[r] \in {"returned", "saved"}
LeftRun(r) == pc[r] \in {"raised", "returned", "saved"}
NoStreamError == \A r \in Ranks : err[r] # "StreamingError"

\* what run gives on one rank whose stream yields all the rows in one block
SingleRankRun(rows) ==
    IF ZeroSize(RowsOf(rows))
    THEN [raised |-> TRUE, value |-> <<>>]
    ELSE [raised |-> FALSE,
          value |-> << NpMin(<<NpMin(<<NpMin(RowsOf(rows))>>)>>),
                       NpMax(<<NpMax(<<NpMax(RowsOf(rows))>>)>>) >>]

\* C1: for a fixed set of rows, run gives the same outcome on every rank for
\* every number of ranks and every split of the rows into partitions and
\* blocks: the outcome of the single-rank, single-block run over those rows.
C1_PartitionInvariance ==
    \A r \in Ranks :
        (LeftRun(r) /\ NoStreamError) =>
            IF SingleRankRun(RowsRead).raised
            THEN pc[r] = "raised"
            ELSE /\ Returned(r)
                 /\ <<left[r], right[r]>> = SingleRankRun(RowsRead).value

\* C2: once a rank has raised before the first all-gather, every rank
\* eventually leaves run with a failure; none stays blocked, none returns.
C2_AllOrNoneFailure ==
    (\E r \in Ranks : pc[r] = "raised") ~> (\A q \in Ranks : pc[q] = "raised")

\* (left, right) of rank r is the bounding box of the rows read by all ranks
IsBoundingBox(r) ==
    \A i \in Axes :
        /\ left[r][i] <= right[r][i]
        /\ \A row \in RowsRead : left[r][i] <= row[i] /\ row[i] <= right[r][i]
        /\ \E row \in RowsRead : row[i] = left[r][i]
        /\ \E row \in RowsRead : row[i] = right[r][i]

\* C3: a rank that has returned from run holds the elementwise minimum and
\* maximum over the rows read by all ranks, and any two ranks that have
\* returned hold the same pair.
C3_GlobalBoundingBox ==
    \A r \in Ranks :
        Returned(r) =>
            /\ IsBoundingBox(r)
            /\ \A q \in Ranks :
                 Returned(q) => left[q] = left[r] /\ right[q] = right[r]

\* two ranks have returned and the global minimum is neither rank's local one
C3_Witness ==
    /\ size = 2
    /\ \A r \in Ranks : Returned(r)
    /\ left[0] # gatherL[0] /\ left[0] # gatherL[1]
    /\ right[0] # gatherR[0] /\ right[0] # gatherR[1]

\* C4: when some partition holds rows, a rank whose stream yields a zero-row
\* block or nothing at all does not raise in the fold, and ends with the
\* bounding box of the rows of the non-empty partitions.
C4_EmptyPartitionTolerated ==
    \A r \in Ranks :
        RowsRead # {} =>
            /\ err[r] # "ValueError"
            /\ (Returned(r) /\ Partition(r) = {}) => IsBoundingBox(r)

\* C5: only rank 0 writes to the output, it writes once, and a rank that has
\* returned from run can complete save whatever the other ranks are doing.
C5_SingleWriter ==
    /\ \A t \in Targets :
         /\ Len(written[t]) <= 1
         /\ \A k \in 1..Len(written[t]) : written[t][k].rank = 0 /\ t = output
    /\ (0 \in Ranks /\ pc[0] = "saved") => Len(written[output]) = 1
    /\ \A r \in Ranks : pc[r] = "saved" /\ r # 0 => err[r] = ""
    /\ \A r \in Ranks : pc[r] = "returned" => ENABLED Save(r)

\* both ranks of a two-rank group have been through save
C5_Witness ==
    /\ size = 2
    /\ \A r \in Ranks : pc[r] = "saved"
    /\ Len(written[output]) = 1

-----------------------------------------------------------------------------
(* Properties of BenchmarkingSample.                                       *)

\* what a read of an attribute must give, from the history of assignments
Expected(i, attr, key) ==
    IF attr \in DOMAIN assigned[i] THEN assigned[i][attr]
    ELSE Presets[samples[i].name][key]

\* C6: a read of BoxSize, Nmesh or N gives the preset of the sample's name
\* until the attribute is assigned on that object, and from then on the value
\* last assigned to it on that object (BoxSize on each of 3 axes), whatever is
\* assigned to other attributes or to other objects.
C6_OverridePersistence ==
    \A i \in Slots :
        Alive(i) =>
            /\ BoxSize(samples[i]) = [ax \in 1..3 |-> Expected(i, "_BoxSize", "BoxSize")]
            /\ Nmesh(samples[i]) = Expected(i, "_Nmesh", "Nmesh")
            /\ N(samples[i]) = Expected(i, "_N", "N")

\* two objects of the same name, one overridden and one not, read differently
C6_Witness ==
    /\ Alive(1) /\ Alive(2)
    /\ samples[1].name = samples[2].name
    /\ DOMAIN assigned[1] = {"_BoxSize", "_Nmesh", "_N"}
    /\ assigned[2] = NoAttrs
    /\ BoxSize(samples[1]) # BoxSize(samples[2])
    /\ N(samples[1]) # N(samples[2])
    /\ Nmesh(samples[2]) = Presets[samples[2].name].Nmesh

\* C7: randoms(alpha) builds its catalog at alpha * N / prod(BoxSize) and
\* stores NZ equal to N / prod(BoxSize), the NZ data() stores for the sample.
C7_UnscaledDensity ==
    cat.kind = "UniformCatalog" =>
        /\ cat.nbar = RandomsNbar(samples[cat.slot], cat.alpha)
        /\ cat.NZ = DataNbar(samples[cat.slot])

\* C8: the catalog of data() is built with the sample's current N (through
\* nbar), BoxSize and Nmesh.
C8_DataFollowsConfiguration ==
    cat.kind = "LogNormalCatalog" =>
        /\ cat.nbar = DataNbar(samples[cat.slot])
        /\ cat.BoxSize = BoxSize(samples[cat.slot])
        /\ cat.Nmesh = Nmesh(samples[cat.slot])

\* C9: a name outside {test, boss_like, desi_like} is refused by the
\* constructor with an error listing the valid names and no object is made,
\* so every sample object has a name of that set and a preset for it.
C9_EagerNameValidation ==
    /\ \A i \in Slots :
         Alive(i) =>
            /\ samples[i].name \in {"test", "boss_like", "desi_like"}
            /\ HasPreset(samples[i])
    /\ raised.exc # "" =>
         /\ raised.exc = "AssertionError"
         /\ raised.arg \notin {"test", "boss_like", "desi_like"}
         /\ raised.msg = <<"test", "boss_like", "desi_like">>

\* a constructor call was refused while an earlier object lives on
C9_Witness ==
    /\ raised.exc = "AssertionError"
    /\ raised.arg = "bogus"
    /\ \E i \in Slots : Alive(i)
    /\ \E i \in Slots : ~Alive(i)

\* C10 as stated: in every state of a sample the number density of data() and
\* of randoms() is strictly positive.
C10_PositiveDensity ==
    \A i \in Slots :
        Alive(i) =>
            /\ FPositive(DataNbar(samples[i]))
            /\ \A alpha \in AlphaArgs : FPositive(RandomsNbar(samples[i], alpha))

PositiveOverrides(s) ==
    \A attr \in DOMAIN s.attrs \cap {"_BoxSize", "_N"} : s.attrs[attr] > 0

\* C10 amended: when every value assigned to BoxSize and N is strictly
\* positive, the number density of data() and of randoms() is a strictly
\* positive finite number.
C10_PositiveDensityOfPositiveValues ==
    \A i \in Slots :
        (Alive(i) /\ PositiveOverrides(samples[i])) =>
            /\ DataNbar(samples[i]).k = "num" /\ DataNbar(samples[i]).s = 1
            /\ \A alpha \in AlphaArgs :
                 /\ RandomsNbar(samples[i], alpha).k = "num"
                 /\ RandomsNbar(samples[i], alpha).s = 1

\* data() has run on a sample whose BoxSize and N were both overridden
C10_Witness ==
    /\ Alive(1)
    /\ {"_BoxSize", "_N"} \subseteq DOMAIN samples[1].attrs
    /\ PositiveOverrides(samples[1])
    /\ cat.kind = "LogNormalCatalog"
    /\ cat.nbar = DataNbar(samples[1])

====
